---------------------------- MODULE Spec2Model ----------------------------
(***************************************************************************)
(* Model of ps360.py: the Powerscribe session object (login, logout,       *)
(* get_latest_orders), the response hook SaveAccountSessionPlugin and the  *)
(* supervisor loop of __main__.                                            *)
(*                                                                         *)
(* Time is counted in whole seconds of the wall clock that both            *)
(* datetime.now() and time.time() read, with the epoch placed at the seed  *)
(* watermark.  isoformat(timespec='milliseconds') truncates below the      *)
(* millisecond, which is exact on whole seconds.                           *)
(***************************************************************************)
EXTENDS Integers, Sequences, FiniteSets, TLC

(***************************************************************************)
(* Bounds of the model.                                                    *)
(***************************************************************************)
\* Number of distinct session tokens the remote service can hand out.
MaxTokens == 2
\* The clock runs over at most MaxLifetimes whole session lifetimes plus
\* MaxTicks sleeps of the requested length.
MaxTicks == 2
MaxLifetimes == 1

(***************************************************************************)
(* Program constants.                                                      *)
(***************************************************************************)
SEARCH_PREVIOUS_MINUTES == 240
\* time.sleep(60) of the poll loop and of the error branch.
TICK == 60
BACKOFF == 60
session_duration == 24 * 60 * 60
\* The value None of _account_session.
NoSession == 0

EventType == {"Sign", "Edit", "QueueForSignature", "Overread"}

Tokens == 1..MaxTokens
Headers == {NoSession} \cup Tokens

\* datetime.now() when Powerscribe() is constructed.
StartTime == SEARCH_PREVIOUS_MINUTES * 60
\* The clock values the bounds admit.
InHorizon(t) ==
    /\ (t - StartTime) \div session_duration <= MaxLifetimes
    /\ (t - StartTime) % session_duration <= MaxTicks * TICK

(***************************************************************************)
(* The remote service's data: ActivityEvents and reports.                  *)
(***************************************************************************)
Ev(type, time, ws, info, id, name) ==
    [Type |-> type, EventTime |-> time, Workstation |-> ws,
     AdditionalInfo |-> info, Account |-> [ID |-> id, Name |-> name]]

E_edit == Ev("Edit", 600, "WS1", "a", 42, "Dr A")
E_sign == Ev("Sign", 570, "WS2", "b", 42, "Dr A")
E_over == Ev("Overread", 615, "WS1", "c", 42, "Dr A")
\* Same user and same timestamp as E_over, another event.
E_tie == Ev("Sign", 615, "WS2", "d", 42, "Dr A")
\* A kind outside EventType.
E_ann == Ev("Annotate", 700, "WS3", "e", 7, "Dr B")
E_queue == Ev("QueueForSignature", 580, "WS3", "f", 7, "Dr B")
\* An event of user 7 that carries another display name.
E_ren == Ev("Edit", 590, "WS1", "g", 7, "Dr B2")

\* An event of a third user, at the timestamp of E_edit.
E_third == Ev("Overread", 600, "WS2", "h", 99, "Dr C")

AllEvents == {E_edit, E_sign, E_over, E_tie, E_ann, E_queue, E_ren, E_third}

Rep(id, modified, signer, events) ==
    [ReportID |-> id, LastModifiedDate |-> modified, Signer |-> signer,
     Events |-> events]

\* Reports modified inside the seed window [0, StartTime), and one modified
\* between the first and the second poll.
Reports ==
    { Rep(1, StartTime - 400, TRUE, {E_edit, E_sign, E_over}),
      Rep(2, StartTime - 300, FALSE, {E_ren}),
      Rep(3, StartTime - 200, TRUE, {}),
      Rep(4, StartTime + 30, TRUE, {E_tie, E_ann, E_queue}) }

VARIABLES
    pc,                 \* position of the supervisor / of get_latest_orders
    clock,              \* the wall clock
    account_session,    \* Powerscribe._account_session
    last_updated,       \* Powerscribe.last_updated
    users,              \* Powerscribe.users
    session_start_time, \* __main__.session_start_time
    active,             \* login() has returned and the try body is not yet left
    window,             \* the time dict passed to BrowseOrders (From, To)
    response,           \* reports of the BrowseOrders response not yet visited
    users_to_upload,    \* get_latest_orders.users_to_upload
    sink,               \* rows of the autotriage users table, by ps360 id
    lastCall,           \* the most recent remote call and the token it carried
    processed,          \* recognized events the reconcile loop has handled
    batch,              \* the parameter list of the last executemany that committed
    users_at_call,      \* the users table as the running get_latest_orders found it
    left_by             \* how the try body was last left: "lifetime" or "exception"

vars == <<pc, clock, account_session, last_updated, users, session_start_time,
          active, window, response, users_to_upload, sink, lastCall, processed,
          batch, users_at_call, left_by>>


(***************************************************************************)
(* Helpers.                                                                *)
(***************************************************************************)
Range(s) == {s[i] : i \in DOMAIN s}

\* The orders in which a set can be listed.
RECURSIVE Perms(_)
Perms(S) ==
    IF S = {} THEN {<<>>}
    ELSE UNION {{<<x>> \o t : t \in Perms(S \ {x})} : x \in S}

\* sort='LastModifiedDate DESC'
RECURSIVE SortDesc(_)
SortDesc(S) ==
    IF S = {} THEN <<>>
    ELSE LET r == CHOOSE x \in S :
                      \A y \in S : y.LastModifiedDate <= x.LastModifiedDate
         IN <<r>> \o SortDesc(S \ {r})

\* The remote BrowseOrders: the reports modified in [from, to), newest first.
BrowseOrders(from, to) ==
    SortDesc({r \in Reports : from <= r.LastModifiedDate /\ r.LastModifiedDate < to})

\* The remote GetReportEvents: the report's events in any order.
GetReportEvents(report) == Perms(report.Events)

(***************************************************************************)
(* The reconcile loop body of get_latest_orders.                           *)
(***************************************************************************)
UserLastEvent(event) ==
    [event_type |-> event.Type, timestamp |-> event.EventTime,
     workstation |-> event.Workstation, additional_info |-> event.AdditionalInfo]

User(id, name, last_event) == [id |-> id, name |-> name, last_event |-> last_event]

\* An EventType conversion that accepts every kind.
RecognizedAny(event) == TRUE

\* EventType(event.Type) raises no ValueError.
Recognized(event) == event.Type \in EventType

\* Newer with the comparison turned around.
NewerReversed(stored, last_event) == stored.timestamp > last_event.timestamp

\* Newer without the comparison: every event replaces the stored one.
NewerAlways(stored, last_event) == TRUE

\* A comparison that also replaces on an equal timestamp.
NewerOrEqual(stored, last_event) == stored.timestamp <= last_event.timestamp

\* The comparison that lets an event replace the stored one.
Newer(stored, last_event) == stored.timestamp < last_event.timestamp

\* The loop body with the insertion of a new user not followed by
\* users_to_upload.add.
ProcessEventUnmarked(st, event) ==
    IF ~Recognized(event) THEN st
    ELSE LET last_event == UserLastEvent(event)
             userId == event.Account.ID
             seen == [st EXCEPT !.processed = @ \cup {event}]
         IN IF userId \in DOMAIN st.users
            THEN IF Newer(st.users[userId].last_event, last_event)
                 THEN [seen EXCEPT !.users[userId].last_event = last_event,
                                   !.users_to_upload = @ \cup {userId}]
                 ELSE seen
            ELSE [seen EXCEPT
                    !.users = [k \in DOMAIN st.users \cup {userId} |->
                                 IF k = userId
                                 THEN User(userId, event.Account.Name, last_event)
                                 ELSE st.users[k]]]

\* The loop body without the "else: continue": an ignored event still marks
\* its user for upload.
ProcessEventMarksAll(st, event) ==
    IF ~Recognized(event) THEN st
    ELSE LET last_event == UserLastEvent(event)
             userId == event.Account.ID
             seen == [st EXCEPT !.processed = @ \cup {event},
                                !.users_to_upload = @ \cup {userId}]
         IN IF userId \in DOMAIN st.users
            THEN IF Newer(st.users[userId].last_event, last_event)
                 THEN [seen EXCEPT !.users[userId].last_event = last_event]
                 ELSE seen
            ELSE [seen EXCEPT
                    !.users = [k \in DOMAIN st.users \cup {userId} |->
                                 IF k = userId
                                 THEN User(userId, event.Account.Name, last_event)
                                 ELSE st.users[k]]]

\* One pass of the body of "for event in events" over the loop state
\* st = [users, users_to_upload, processed].
ProcessEvent(st, event) ==
    IF ~Recognized(event) THEN st
    ELSE LET last_event == UserLastEvent(event)
             userId == event.Account.ID
             seen == [st EXCEPT !.processed = @ \cup {event}]
         IN IF userId \in DOMAIN st.users
            THEN IF Newer(st.users[userId].last_event, last_event)
                 THEN [seen EXCEPT !.users[userId].last_event = last_event,
                                   !.users_to_upload = @ \cup {userId}]
                 ELSE seen
            ELSE [seen EXCEPT
                    !.users = [k \in DOMAIN st.users \cup {userId} |->
                                 IF k = userId
                                 THEN User(userId, event.Account.Name, last_event)
                                 ELSE st.users[k]],
                    !.users_to_upload = @ \cup {userId}]

RECURSIVE ProcessEvents(_, _)
ProcessEvents(st, events) ==
    IF events = <<>> THEN st
    ELSE ProcessEvents(ProcessEvent(st, Head(events)), Tail(events))

\* The parameter rows of the executemany statement.
Row(user) ==
    [ps360_last_event_type |-> user.last_event.event_type,
     ps360_last_event_timestamp |-> user.last_event.timestamp,
     ps360_last_event_workstation |-> user.last_event.workstation]

\* A remote call: the operation, the token in its soapheaders, how it ended
\* ("ok", "true"/"false" for SignOut, "fault", "noresponse").
Call(op, token, result) == [op |-> op, token |-> token, result |-> result]

(***************************************************************************)
(* Initial state: Powerscribe() constructed, supervisor about to log in.   *)
(***************************************************************************)
InitData ==
    /\ clock = StartTime
    /\ account_session = NoSession
    /\ last_updated = StartTime - SEARCH_PREVIOUS_MINUTES * 60
    /\ users = [k \in {} |-> 0]
    /\ session_start_time = StartTime
    /\ active = FALSE
    /\ window = [From |-> 0, To |-> 0]
    /\ response = <<>>
    /\ users_to_upload = {}
    /\ sink = [k \in {} |-> 0]
    /\ lastCall = Call("none", NoSession, "ok")
    /\ processed = {}
    /\ batch = <<>>
    /\ users_at_call = [k \in {} |-> 0]
    /\ left_by = "none"

Init == pc = "login" /\ InitData


(***************************************************************************)
(* time.sleep(seconds): the call returns after the requested time, or      *)
(* later by an arbitrary amount (here: a whole session lifetime).          *)
(***************************************************************************)
Delays(seconds) == {seconds, session_duration}

SleepUntil(seconds) == {clock + d : d \in Delays(seconds)}

(***************************************************************************)
(* SaveAccountSessionPlugin.ingress: every response of the session client  *)
(* (SignIn, SignOut) overwrites the token with the response's              *)
(* AccountSession header, None when the header is absent.  A SOAP fault    *)
(* envelope carries no such header.                                        *)
(***************************************************************************)
ingress(envelope) == envelope.AccountSession

\* A response envelope of the session client, reduced to what the hook reads.
Envelope(header) == [AccountSession |-> header]

(***************************************************************************)
(* Powerscribe.login, called at the top of the try body.                   *)
(***************************************************************************)
\* SignIn raises before any response arrives: the hook does not run.
LoginNoResponse ==
    /\ pc = "login"
    /\ lastCall' = Call("SignIn", NoSession, "noresponse")
    /\ pc' = "except"
    /\ UNCHANGED <<batch, users_at_call, left_by>>
    /\ UNCHANGED <<clock, account_session, last_updated, users,
                   session_start_time, active, window, response,
                   users_to_upload, sink, processed>>

\* A login that seeds the watermark anew when it succeeds.
LoginResponseReseeds ==
    /\ pc = "login"
    /\ \E header \in Headers, fault \in BOOLEAN :
         /\ fault => header = NoSession
         /\ account_session' = ingress(Envelope(header))
         /\ lastCall' = Call("SignIn", NoSession, IF fault THEN "fault" ELSE "ok")
         /\ IF fault \/ account_session' = NoSession
            THEN /\ pc' = "except"
                 /\ UNCHANGED <<session_start_time, active, last_updated>>
            ELSE /\ pc' = "loop"
                 /\ session_start_time' = clock
                 /\ active' = TRUE
                 /\ last_updated' = clock - SEARCH_PREVIOUS_MINUTES * 60
    /\ UNCHANGED <<batch, users_at_call, left_by>>
    /\ UNCHANGED <<clock, users, window, response, users_to_upload, sink,
                   processed>>

\* A login without the assert on the token: a response that is no fault
\* lets login return whether or not it carried the header.
LoginResponseNoAssert ==
    /\ pc = "login"
    /\ \E header \in Headers, fault \in BOOLEAN :
         /\ fault => header = NoSession
         /\ account_session' = ingress(Envelope(header))
         /\ lastCall' = Call("SignIn", NoSession, IF fault THEN "fault" ELSE "ok")
         /\ IF fault
            THEN /\ pc' = "except"
                 /\ UNCHANGED <<session_start_time, active>>
            ELSE /\ pc' = "loop"
                 /\ session_start_time' = clock
                 /\ active' = TRUE
    /\ UNCHANGED <<batch, users_at_call, left_by>>
    /\ UNCHANGED <<clock, last_updated, users, window, response,
                   users_to_upload, sink, processed>>

\* A SignIn response arrives: a SOAP fault, or a result with or without the
\* AccountSession header; login returns only if it is no fault and the
\* assert on the token passes.
LoginResponse ==
    /\ pc = "login"
    /\ \E header \in Headers, fault \in BOOLEAN :
         /\ fault => header = NoSession
         /\ account_session' = ingress(Envelope(header))
         /\ lastCall' = Call("SignIn", NoSession, IF fault THEN "fault" ELSE "ok")
         /\ IF fault \/ account_session' = NoSession
            THEN /\ pc' = "except"
                 /\ UNCHANGED <<session_start_time, active>>
            ELSE /\ pc' = "loop"
                 /\ session_start_time' = clock
                 /\ active' = TRUE
    /\ UNCHANGED <<batch, users_at_call, left_by>>
    /\ UNCHANGED <<clock, last_updated, users, window, response,
                   users_to_upload, sink, processed>>

(***************************************************************************)
(* The inner poll loop and Powerscribe.get_latest_orders.                  *)
(***************************************************************************)
LoopGuard == (clock - session_start_time) < session_duration

\* The loop condition fails: "Session finished", on to the finally clause.
SessionFinished ==
    /\ pc = "loop"
    /\ ~LoopGuard
    /\ pc' = "logout"
    /\ left_by' = "lifetime"
    /\ UNCHANGED <<batch, users_at_call>>
    /\ UNCHANGED <<clock, account_session, last_updated, users,
                   session_start_time, active, window, response,
                   users_to_upload, sink, lastCall, processed>>

\* A get_latest_orders that starts from an empty users table.
BrowseResets ==
    /\ pc = "loop"
    /\ LoopGuard
    /\ LET now == clock
       IN /\ window' = [From |-> last_updated, To |-> now]
          /\ response' = BrowseOrders(last_updated, now)
          /\ last_updated' = now
    /\ users_to_upload' = {}
    /\ lastCall' = Call("BrowseOrders", account_session, "ok")
    /\ pc' = "report"
    /\ users' = [k \in {} |-> 0]
    /\ users_at_call' = users'
    /\ UNCHANGED <<batch, left_by>>
    /\ UNCHANGED <<clock, account_session, session_start_time, active,
                   sink, processed>>

\* get_latest_orders up to the for loop: BrowseOrders answers.
Browse ==
    /\ pc = "loop"
    /\ LoopGuard
    /\ LET now == clock
       IN /\ window' = [From |-> last_updated, To |-> now]
          /\ response' = BrowseOrders(last_updated, now)
          /\ last_updated' = now
    /\ users_to_upload' = {}
    /\ lastCall' = Call("BrowseOrders", account_session, "ok")
    /\ pc' = "report"
    /\ users_at_call' = users
    /\ UNCHANGED <<batch, left_by>>
    /\ UNCHANGED <<clock, account_session, users, session_start_time, active,
                   sink, processed>>

\* BrowseOrders raises.
BrowseFails ==
    /\ pc = "loop"
    /\ LoopGuard
    /\ window' = [From |-> last_updated, To |-> clock]
    /\ lastCall' = Call("BrowseOrders", account_session, "fault")
    /\ pc' = "except"
    /\ users_at_call' = users
    /\ UNCHANGED <<batch, left_by>>
    /\ UNCHANGED <<clock, account_session, last_updated, users,
                   session_start_time, active, response, users_to_upload,
                   sink, processed>>

\* One iteration of "for report in response": a report without signer is
\* passed over, otherwise GetReportEvents answers (None for no events) and
\* the events are reconciled in the order they come.
Report ==
    /\ pc = "report"
    /\ response # <<>>
    /\ LET report == Head(response)
           st == [users |-> users, users_to_upload |-> users_to_upload,
                  processed |-> processed]
       IN IF report.Signer
          THEN /\ \E events \in GetReportEvents(report) :
                    LET after == ProcessEvents(st, events)
                    IN /\ users' = after.users
                       /\ users_to_upload' = after.users_to_upload
                       /\ processed' = after.processed
               /\ lastCall' = Call("GetReportEvents", account_session, "ok")
          ELSE UNCHANGED <<users, users_to_upload, processed, lastCall>>
    /\ response' = Tail(response)
    /\ UNCHANGED <<batch, users_at_call, left_by>>
    /\ UNCHANGED <<pc, clock, account_session, last_updated,
                   session_start_time, active, window, sink>>

\* GetReportEvents raises on the report at hand.
ReportFails ==
    /\ pc = "report"
    /\ response # <<>>
    /\ Head(response).Signer
    /\ lastCall' = Call("GetReportEvents", account_session, "fault")
    /\ pc' = "except"
    /\ UNCHANGED <<batch, users_at_call, left_by>>
    /\ UNCHANGED <<clock, account_session, last_updated, users,
                   session_start_time, active, window, response,
                   users_to_upload, sink, processed>>

\* The list comprehension given to executemany: for each userId of
\* users_to_upload, in the order the set is iterated, the row and its key.
Params(order) ==
    [i \in DOMAIN order |-> [row |-> Row(users[order[i]]), ps360 |-> order[i]]]

\* executemany: the update statement once per parameter tuple, in order.
RECURSIVE ExecuteMany(_, _)
ExecuteMany(table, params) ==
    IF params = <<>> THEN table
    ELSE LET p == Head(params)
         IN ExecuteMany([k \in DOMAIN table \cup {p.ps360} |->
                           IF k = p.ps360 THEN p.row ELSE table[k]],
                        Tail(params))

\* psycopg.connect ... executemany, committed when the with block is left;
\* get_latest_orders returns.
Flush ==
    /\ pc = "report"
    /\ response = <<>>
    /\ \E order \in Perms(users_to_upload) :
         /\ batch' = Params(order)
         /\ sink' = ExecuteMany(sink, batch')
    /\ pc' = "sleep"
    /\ UNCHANGED <<users_at_call, left_by>>
    /\ UNCHANGED <<clock, account_session, last_updated, users,
                   session_start_time, active, window, response,
                   users_to_upload, lastCall, processed>>

\* connect or executemany raises: the transaction writes nothing.
FlushFails ==
    /\ pc = "report"
    /\ response = <<>>
    /\ pc' = "except"
    /\ UNCHANGED <<batch, users_at_call, left_by>>
    /\ UNCHANGED <<clock, account_session, last_updated, users,
                   session_start_time, active, window, response,
                   users_to_upload, sink, lastCall, processed>>

\* time.sleep(60) after a cycle that returned.
Sleep ==
    /\ pc = "sleep"
    /\ \E t \in SleepUntil(TICK) : InHorizon(t) /\ clock' = t
    /\ pc' = "loop"
    /\ UNCHANGED <<batch, users_at_call, left_by>>
    /\ UNCHANGED <<account_session, last_updated, users, session_start_time,
                   active, window, response, users_to_upload, sink, lastCall,
                   processed>>

\* The error branch without its time.sleep(60).
ExceptNoSleep ==
    /\ pc = "except"
    /\ pc' = "logout"
    /\ left_by' = IF active THEN "exception" ELSE left_by
    /\ UNCHANGED <<batch, users_at_call>>
    /\ UNCHANGED <<clock, account_session, last_updated, users,
                   session_start_time, active, window, response,
                   users_to_upload, sink, lastCall, processed>>

\* The error branch without a finally clause: straight back to login.
ExceptNoFinally ==
    /\ pc = "except"
    /\ \E t \in SleepUntil(BACKOFF) : InHorizon(t) /\ clock' = t
    /\ pc' = "login"
    /\ active' = FALSE
    /\ left_by' = IF active THEN "exception" ELSE left_by
    /\ UNCHANGED <<batch, users_at_call>>
    /\ UNCHANGED <<account_session, last_updated, users, session_start_time,
                   window, response, users_to_upload, sink, lastCall,
                   processed>>

(***************************************************************************)
(* except Exception: log, time.sleep(60), then the finally clause.         *)
(***************************************************************************)
Except ==
    /\ pc = "except"
    /\ \E t \in SleepUntil(BACKOFF) : InHorizon(t) /\ clock' = t
    /\ pc' = "logout"
    /\ left_by' = IF active THEN "exception" ELSE left_by
    /\ UNCHANGED <<batch, users_at_call>>
    /\ UNCHANGED <<account_session, last_updated, users, session_start_time,
                   active, window, response, users_to_upload, sink, lastCall,
                   processed>>

(***************************************************************************)
(* finally: Powerscribe.logout, then the next turn of the outer loop.      *)
(***************************************************************************)
\* No token: logout sends nothing.
LogoutNoToken ==
    /\ pc = "logout"
    /\ account_session = NoSession
    /\ pc' = "login"
    /\ active' = FALSE
    /\ left_by' = "none"
    /\ UNCHANGED <<batch, users_at_call>>
    /\ UNCHANGED <<clock, account_session, last_updated, users,
                   session_start_time, window, response, users_to_upload,
                   sink, lastCall, processed>>

\* SignOut answers true or false; the hook has run on the response.
LogoutResponse ==
    /\ pc = "logout"
    /\ account_session # NoSession
    /\ \E header \in Headers, result \in BOOLEAN :
         /\ account_session' = IF result THEN NoSession ELSE ingress(Envelope(header))
         /\ lastCall' = Call("SignOut", account_session,
                             IF result THEN "true" ELSE "false")
    /\ pc' = "login"
    /\ active' = FALSE
    /\ left_by' = "none"
    /\ UNCHANGED <<batch, users_at_call>>
    /\ UNCHANGED <<clock, last_updated, users, session_start_time, window,
                   response, users_to_upload, sink, processed>>

\* SignOut raises, without a response or with a SOAP fault the hook has
\* seen: the exception leaves the finally clause and the while loop.
LogoutRaises ==
    /\ pc = "logout"
    /\ account_session # NoSession
    /\ \E answered \in BOOLEAN :
         /\ account_session' = IF answered
                              THEN ingress(Envelope(NoSession))
                              ELSE account_session
         /\ lastCall' = Call("SignOut", account_session,
                             IF answered THEN "fault" ELSE "noresponse")
    /\ pc' = "exited"
    /\ active' = FALSE
    /\ UNCHANGED <<batch, users_at_call, left_by>>
    /\ UNCHANGED <<clock, last_updated, users, session_start_time, window,
                   response, users_to_upload, sink, processed>>

Next ==
    \/ LoginNoResponse
    \/ LoginResponse
    \/ SessionFinished
    \/ Browse
    \/ BrowseFails
    \/ Report
    \/ ReportFails
    \/ Flush
    \/ FlushFails
    \/ Sleep
    \/ Except
    \/ LogoutNoToken
    \/ LogoutResponse
    \/ LogoutRaises

Spec == Init /\ [][Next]_vars

(***************************************************************************)
(* The reconcile loop on its own: the body of "for event in events" is     *)
(* applied to the table for one event after another, the events coming in  *)
(* any order and any number of times.                                      *)
(***************************************************************************)
InitReconcile == pc = "reconcile" /\ InitData

Reconcile ==
    /\ pc = "reconcile"
    /\ \E event \in AllEvents :
         LET after == ProcessEvent([users |-> users,
                                    users_to_upload |-> users_to_upload,
                                    processed |-> processed], event)
         IN /\ users' = after.users
            /\ users_to_upload' = after.users_to_upload
            /\ processed' = after.processed
    /\ UNCHANGED <<batch, users_at_call, left_by>>
    /\ UNCHANGED <<pc, clock, account_session, last_updated,
                   session_start_time, active, window, response, sink,
                   lastCall>>

NextReconcile == Reconcile

SpecReconcile == InitReconcile /\ [][NextReconcile]_vars


(***************************************************************************)
(* Properties.                                                             *)
(***************************************************************************)

\* C1: a call of get_latest_orders that raises leaves the watermark where it
\* was when the call began, i.e. at the From of the window it queried.
C1_WatermarkHeldOnFailure ==
    (pc = "except" /\ active) => last_updated = window.From

\* The recognized events handled so far whose acting user is u.
EventsOf(u) == {e \in processed : e.Account.ID = u}

MaxTime(S) == CHOOSE t \in {e.EventTime : e \in S} : \A e \in S : e.EventTime <= t

\* C2: in every reachable state the stored latest-event timestamp of every
\* user of the table is the maximum timestamp among the recognized events
\* processed so far for that user.
C2_LatestIsMax ==
    \A u \in DOMAIN users :
        /\ EventsOf(u) # {}
        /\ users[u].last_event.timestamp = MaxTime(EventsOf(u))

\* Edit@600, Sign@570 and Overread@615 of user 42 have all been handled, as
\* has a later cycle's report, and user 42 stands at Overread@615.
C2_Witness ==
    /\ {E_edit, E_sign, E_over, E_queue} \subseteq processed
    /\ 42 \in DOMAIN users
    /\ users[42].last_event = UserLastEvent(E_over)


\* The listings of a set of events in ascending timestamp order.
RECURSIVE AscendingOrders(_)
AscendingOrders(S) ==
    IF S = {} THEN {<<>>}
    ELSE UNION {{<<m>> \o t : t \in AscendingOrders(S \ {m})} :
                m \in {x \in S : \A y \in S : x.EventTime <= y.EventTime}}

\* The table the loop builds from an empty one when fed the listing once.
TableOf(events) ==
    ProcessEvents([users |-> [k \in {} |-> 0], users_to_upload |-> {},
                   processed |-> {}], events).users

\* C3 as stated: whatever the arrival order and the number of replays, the
\* table equals the one built by applying the handled events once in
\* ascending timestamp order, also when timestamps of a user coincide.
C3_OrderIndependent ==
    \A s \in AscendingOrders(processed) : users = TableOf(s)

NoTies(S) ==
    \A e, f \in S :
        (e.Account.ID = f.Account.ID /\ e.EventTime = f.EventTime) => e = f

OneName(S) ==
    \A e, f \in S : e.Account.ID = f.Account.ID => e.Account.Name = f.Account.Name

\* C3 amended: the ids and the latest-event timestamps always equal those of
\* the table built in ascending timestamp order; the whole table does when
\* no two distinct events of a user share a timestamp and all events of a
\* user carry one name.
C3_OrderIndependentAmended ==
    \A s \in AscendingOrders(processed) :
        /\ DOMAIN users = DOMAIN TableOf(s)
        /\ \A u \in DOMAIN users :
              /\ users[u].id = TableOf(s)[u].id
              /\ users[u].last_event.timestamp = TableOf(s)[u].last_event.timestamp
        /\ (NoTies(processed) /\ OneName(processed)) => users = TableOf(s)

\* Events of two users, three of them of user 42 with distinct timestamps,
\* have been fed and the table holds the newest of each.
C3_Witness ==
    /\ pc = "reconcile"
    /\ processed = {E_edit, E_sign, E_over, E_queue, E_third}
    /\ users[42].last_event = UserLastEvent(E_over)
    /\ users[7].last_event = UserLastEvent(E_queue)


\* The recognized events GetReportEvents can report: those of reports that
\* have a signer.
Reported == {e \in UNION {r.Events : r \in {x \in Reports : x.Signer}} : Recognized(e)}

\* e is the one latest event of its user among the reported ones.
IsLatestOfUser(e) ==
    \A f \in Reported \ {e} :
        f.Account.ID = e.Account.ID => f.EventTime < e.EventTime

\* The sink holds e's kind, timestamp and workstation under e's user id.
Written(e) ==
    /\ e.Account.ID \in DOMAIN sink
    /\ sink[e.Account.ID] =
         Row(User(e.Account.ID, e.Account.Name, UserLastEvent(e)))

\* e of report r is still on its way to the sink: r lies in a window yet to
\* be queried, or the running cycle has r to visit or e's user to upload.
Pending(r, e) ==
    \/ r.LastModifiedDate >= last_updated
    \/ /\ pc = "report"
       /\ \/ r \in Range(response)
          \/ /\ e.Account.ID \in users_to_upload
             /\ users[e.Account.ID].last_event = UserLastEvent(e)

\* C4: no failure makes a reported recognized event that is the latest of
\* its user, of an order modified after the seed watermark, miss the sink:
\* at any time it is written or still on its way (once it is neither, no
\* later window returns its order, so it is never written).
C4_NoSilentSkip ==
    \A r \in Reports : \A e \in r.Events \cap Reported :
        (r.Signer /\ r.LastModifiedDate >= StartTime - SEARCH_PREVIOUS_MINUTES * 60
          /\ IsLatestOfUser(e))
        => (Written(e) \/ Pending(r, e))

\* C5: within a cycle the watermark is assigned only once that cycle's flush
\* has completed, so every step that changes last_updated is the step that
\* ends the batch write and returns from get_latest_orders; and the loop
\* head, where the next cycle starts, is reached only from the sleep after a
\* flushed cycle or from a login after the failure handling.
C5_AdvanceAfterFlush ==
    [][/\ last_updated' # last_updated =>
             (pc = "report" /\ response = <<>> /\ pc' = "sleep")
       /\ (pc' = "loop" /\ pc # "loop") => pc \in {"sleep", "login"}]_vars

\* C6: every login() call starts with no session token held.
C6_LoginStartsWithoutToken == pc = "login" => account_session = NoSession

\* C7: the supervisor is never left through an exception.
C7_NeverExits == pc # "exited"

\* C8: every logout, failed or not, is followed by the next login attempt.
C8_LogoutAbsorbed == [][pc = "logout" => pc' = "login"]_vars


\* C9: the next login attempt is reached only through the finally clause,
\* and whenever the finally clause is entered from Active (by the lifetime
\* guard or by an exception of get_latest_orders) a token is held and the
\* step sends SignOut carrying that token.
C9_LogoutOnEveryExit ==
    [][/\ pc' = "login" => pc = "logout"
       /\ (pc = "logout" /\ active) =>
             /\ account_session # NoSession
             /\ lastCall'.op = "SignOut"
             /\ lastCall'.token = account_session]_vars

\* A session that ran a cycle has been left and SignOut carrying its token
\* was sent; the supervisor is about to log in again.
C9_Witness ==
    /\ pc = "login"
    /\ lastCall.op = "SignOut"
    /\ lastCall.token # NoSession
    /\ processed # {}

\* C10: a logout that sends SignOut leaves no token if SignOut returned
\* true, and otherwise (false, or raised) the token held before the call.
C10_ClearsExactlyOnSuccess ==
    [][(pc = "logout" /\ account_session # NoSession) =>
          IF lastCall'.result = "true"
          THEN account_session' = NoSession
          ELSE account_session' = account_session]_vars


\* C11: the watermark starts at the construction time less 240 minutes and
\* no step of any cycle, login, logout or failure moves it backwards.
C11_WatermarkMonotonic ==
    /\ last_updated = StartTime - SEARCH_PREVIOUS_MINUTES * 60
    /\ [][last_updated' >= last_updated]_vars

\* A cycle has advanced a watermark that an earlier cycle had advanced, and
\* the session has since been left and a new login is due.
C11_Witness ==
    /\ pc = "login"
    /\ window.From > StartTime - SEARCH_PREVIOUS_MINUTES * 60
    /\ last_updated > window.From

\* The ids inserted, or whose latest-event was replaced, since the running
\* get_latest_orders was called.
ChangedInCall ==
    {u \in DOMAIN users :
        \/ u \notin DOMAIN users_at_call
        \/ users[u].last_event # users_at_call[u].last_event}

\* C12: the batch a cycle writes holds exactly one row per id changed in
\* that cycle, carrying the id's current kind, timestamp and workstation;
\* an id of the table not changed in this cycle is not in the batch.
C12_FlushScope ==
    pc = "sleep" =>
        /\ {batch[i].ps360 : i \in DOMAIN batch} = ChangedInCall
        /\ Len(batch) = Cardinality(ChangedInCall)
        /\ \A i \in DOMAIN batch :
             LET last_event == users[batch[i].ps360].last_event
             IN /\ batch[i].row.ps360_last_event_type = last_event.event_type
                /\ batch[i].row.ps360_last_event_timestamp = last_event.timestamp
                /\ batch[i].row.ps360_last_event_workstation = last_event.workstation

\* A cycle has written user 7 alone, while user 42, changed in an earlier
\* cycle and re-observed in this one, is in the table.
C12_Witness ==
    /\ pc = "sleep"
    /\ 42 \in DOMAIN users_at_call
    /\ E_tie \in processed
    /\ {batch[i].ps360 : i \in DOMAIN batch} = {7}

\* The kinds the claims name as recognized.
KnownKinds == {"Sign", "Edit", "QueueForSignature", "Overread"}

KnownKind(event) == event.Type \in KnownKinds

\* The state the reconcile loop works on, as it stands.
LoopState ==
    [users |-> users, users_to_upload |-> users_to_upload,
     processed |-> processed]

\* C13: an event of a kind outside Sign, Edit, QueueForSignature, Overread
\* is dropped: no latest-event of the table carries such a kind, processing
\* the event leaves the table and the changed set as they are, and the
\* events of an order are processed as if the event were not among them.
C13_UnknownKindDropped ==
    /\ \A u \in DOMAIN users : users[u].last_event.event_type \in KnownKinds
    /\ \A e \in AllEvents :
         ~KnownKind(e) =>
            LET after == ProcessEvent(LoopState, e)
            IN /\ after.users = users
               /\ after.users_to_upload = users_to_upload
    /\ (pc = "report" /\ response # <<>>) =>
          \A events \in GetReportEvents(Head(response)) :
             LET all == ProcessEvents(LoopState, events)
                 known == ProcessEvents(LoopState, SelectSeq(events, KnownKind))
             IN /\ all.users = known.users
                /\ all.users_to_upload = known.users_to_upload

\* The order holding the Annotate event of user 7 has been processed: the
\* other events of the order were handled and user 7 carries the
\* QueueForSignature event, which is older than the Annotate event.
C13_Witness ==
    /\ E_tie \in processed
    /\ E_queue \in processed
    /\ 7 \in DOMAIN users
    /\ users[7].last_event.event_type = "QueueForSignature"
    /\ users[7].last_event.timestamp < E_ann.EventTime
    /\ 7 \in users_to_upload

\* C16: a recognized event whose user id is not a key of the table creates
\* one entry under that id, with the event's name and the event as the
\* latest-event, adds the id to the changed set and changes no other entry.
C16_NewUserInsertion ==
    \A e \in AllEvents :
       (KnownKind(e) /\ e.Account.ID \notin DOMAIN users) =>
          LET after == ProcessEvent(LoopState, e)
              id == e.Account.ID
          IN /\ DOMAIN after.users = DOMAIN users \cup {id}
             /\ after.users[id].id = id
             /\ after.users[id].name = e.Account.Name
             /\ after.users[id].last_event.event_type = e.Type
             /\ after.users[id].last_event.timestamp = e.EventTime
             /\ after.users[id].last_event.workstation = e.Workstation
             /\ after.users[id].last_event.additional_info = e.AdditionalInfo
             /\ after.users_to_upload = users_to_upload \cup {id}
             /\ \A k \in DOMAIN users : after.users[k] = users[k]

\* User 99 has been inserted next to an earlier entry and is marked changed,
\* while user 7 is yet to be seen.
C16_Witness ==
    /\ pc = "reconcile"
    /\ DOMAIN users = {42, 99}
    /\ users[99].last_event.timestamp = E_third.EventTime
    /\ users[99].name = "Dr C"
    /\ 99 \in users_to_upload

\* C18: a recognized event of an existing user whose stored latest-event is
\* as new or newer is ignored: the table and the changed set stay as they
\* are, and a cycle writes an existing user only when its timestamp grew.
C18_OlderOrEqualIgnored ==
    /\ \A e \in AllEvents :
         (/\ KnownKind(e)
          /\ e.Account.ID \in DOMAIN users
          /\ users[e.Account.ID].last_event.timestamp >= e.EventTime) =>
            LET after == ProcessEvent(LoopState, e)
            IN /\ after.users = users
               /\ after.users_to_upload = users_to_upload
    /\ pc = "sleep" =>
         \A i \in DOMAIN batch :
            LET id == batch[i].ps360
            IN id \in DOMAIN users_at_call =>
                 users_at_call[id].last_event.timestamp
                    < users[id].last_event.timestamp

\* A cycle has met the Sign event of user 42 at the timestamp of the stored
\* Overread event: the entry is the one the cycle found and the cycle has
\* written no row for user 42.
C18_Witness ==
    /\ pc = "sleep"
    /\ E_tie \in processed
    /\ 42 \in DOMAIN users_at_call
    /\ users[42] = users_at_call[42]
    /\ users[42].last_event.event_type = "Overread"
    /\ users[42].last_event.timestamp = E_tie.EventTime
    /\ 42 \notin users_to_upload
    /\ \A i \in DOMAIN batch : batch[i].ps360 # 42

\* C14: when the session has lasted its lifetime the inner loop is left
\* without an error for the logout, and the logout of a session that was
\* left in this way is followed by a new login.
C14_LifetimeGuard ==
    [][/\ (pc = "loop" /\ ~LoopGuard) => (pc' = "logout" /\ left_by' = "lifetime")
       /\ (pc = "logout" /\ left_by = "lifetime") => pc' = "login"]_vars

\* The part of C14 that is the guard's own: a session that has lasted its
\* lifetime runs no further cycle and is left for the logout.
LifetimeGuardForcesLogout ==
    [][(pc = "loop" /\ ~LoopGuard) => (pc' = "logout" /\ left_by' = "lifetime")]_vars

\* The calls of the explorer and the report client.
DataCalls == {"BrowseOrders", "GetReportEvents"}

\* C15: BrowseOrders and GetReportEvents are called only inside the span
\* from a login that returned to the leaving of the try body; in that span
\* the token is not None and stays the one the SignIn response of that login
\* brought, and each such call carries it.
C15_NoCallAfterLogout ==
    /\ [](pc \in {"loop", "report", "sleep"} =>
             active /\ account_session # NoSession)
    /\ [](lastCall.op \in DataCalls => lastCall.token # NoSession)
    /\ [][/\ (pc = "login" /\ pc' = "loop") =>
               /\ lastCall'.op = "SignIn" /\ lastCall'.result = "ok"
               /\ account_session' # NoSession
          /\ pc' = "loop" => pc \in {"login", "sleep"}
          /\ pc \in {"loop", "report", "sleep"} =>
               account_session' = account_session
          /\ pc \notin {"loop", "report"} =>
               (lastCall' = lastCall \/ lastCall'.op \notin DataCalls)
          /\ (pc \in {"loop", "report"} /\ lastCall'.op \in DataCalls) =>
               lastCall'.token = account_session]_vars

\* After a cycle that wrote to the sink, a failure and a new login, the
\* next BrowseOrders call has been made with the token of the new login.
C15_Witness ==
    /\ pc = "report"
    /\ DOMAIN sink # {}
    /\ session_start_time > StartTime
    /\ window.To >= session_start_time
    /\ lastCall = Call("BrowseOrders", account_session, "ok")

C19_NoTightFailureLoop ==
    [][/\ pc = "login" => pc' \in {"loop", "except"}
       /\ pc' = "except" => pc \in {"login", "loop", "report"}
       /\ pc = "except" => (pc' = "logout" /\ clock' >= clock + BACKOFF)
       /\ pc' = "logout" => (pc = "except" \/ (pc = "loop" /\ ~LoopGuard))
       /\ pc = "logout" => clock' = clock
       /\ pc' = "login" => pc = "logout"]_vars

\* A login has failed, the backoff has passed and the next login is due.
C19_Witness ==
    /\ pc = "login"
    /\ lastCall.op = "SignIn"
    /\ lastCall.result \in {"fault", "noresponse"}
    /\ clock >= StartTime + BACKOFF

\* C20: every entry of the users table is stored under its own id; no step
\* removes a key or changes the id or the name of an entry.
C20_UsersOnlyGrows ==
    /\ [](\A k \in DOMAIN users : users[k].id = k)
    /\ [][\A k \in DOMAIN users :
             /\ k \in DOMAIN users'
             /\ users'[k].id = users[k].id
             /\ users'[k].name = users[k].name]_vars

\* After a failed cycle, a logout and a new login, a call has started with
\* user 42 in the table and has added user 7 next to it.
C20_Witness ==
    /\ pc = "report"
    /\ session_start_time > StartTime
    /\ 42 \in DOMAIN users_at_call
    /\ DOMAIN users = {7, 42}
    /\ users[42].last_event # users_at_call[42].last_event \/ 7 \notin DOMAIN users_at_call

=============================================================================
